---- MODULE Spec2Model ----
(***************************************************************************)
(* A model of anki_heatmap.py: the AnkiHeatmapWidget object, its data      *)
(* load, its streak statistics, the heatmap grid and its tooltip overlay.  *)
(*                                                                         *)
(* Dates.  A datetime.date is modelled by its day number: the number of    *)
(* days since 2025-01-01 (so date +/- timedelta is integer arithmetic).    *)
(* A "%Y-%m-%d" string is modelled by the triple <<year, month, day>>;     *)
(* string order on such zero-padded strings is the lexicographic order of  *)
(* the triples.  Optional values (None, or an attribute not yet assigned)  *)
(* are modelled as the empty tuple, a present value v as <<v>>.            *)
(***************************************************************************)
EXTENDS Integers, Sequences, FiniteSets, TLC

VARIABLES
    now,              \* the wall clock's date, datetime.datetime.now().date()
    running,          \* FALSE until __init__ has done its initial load
    review_counts,    \* self.review_counts: date string -> count
    current_streak,   \* self.current_streak (absent until first assigned)
    longest_streak,   \* self.longest_streak
    total_reviews,    \* self.total_reviews
    stats_label,      \* markup shown by self.stats_label
    date_range_label, \* markup shown by self.date_range_label
    load_result,      \* the path on which the latest load_anki_data returned
    dragging,         \* self.dragging
    tooltip_window,   \* self.tooltip_window
    hover_date,       \* self.hover_date
    hover_count,      \* self.hover_count
    popups,           \* the popup windows created and not yet destroyed
    width,            \* heatmap_area.get_allocated_width()
    height,           \* heatmap_area.get_allocated_height()
    drawn             \* the cells painted by the latest draw_heatmap

vars == <<now, running, review_counts, current_streak, longest_streak,
          total_reviews, stats_label, date_range_label, load_result, dragging,
          tooltip_window, hover_date, hover_count, popups, width, height, drawn>>

None == << >>
Some(v) == <<v>>

Min(a, b) == IF a <= b THEN a ELSE b
Max(a, b) == IF a >= b THEN a ELSE b

(***************************************************************************)
(* The calendar (Python's datetime), for the years 2024..2026.             *)
(***************************************************************************)
TargetYear == 2025

Years == {2024, 2025, 2026}

IsLeap(y) == (y % 4 = 0 /\ y % 100 # 0) \/ y % 400 = 0

\* Day number of 1 January of year y (2025-01-01 is day 0).
YearStart(y) ==
    IF y = 2024 THEN -366
    ELSE IF y = 2025 THEN 0
    ELSE IF y = 2026 THEN 365
    ELSE 730

MonthLen(y, m) ==
    IF m = 2 THEN (IF IsLeap(y) THEN 29 ELSE 28)
    ELSE IF m \in {4, 6, 9, 11} THEN 30
    ELSE 31

RECURSIVE DaysBeforeMonth(_, _)
DaysBeforeMonth(y, m) ==
    IF m <= 1 THEN 0 ELSE DaysBeforeMonth(y, m - 1) + MonthLen(y, m - 1)

\* The day numbers of the three years.
DayRange == YearStart(2024)..(YearStart(2027) - 1)

\* The year, month and day of month of every day number, tabulated once.
Calendar ==
    [d \in DayRange |->
        LET y == CHOOSE y \in Years : YearStart(y) <= d /\ d < YearStart(y + 1)
            doy == d - YearStart(y)
            m == CHOOSE m \in 1..12 :
                    DaysBeforeMonth(y, m) <= doy
                    /\ doy < DaysBeforeMonth(y, m) + MonthLen(y, m)
        IN  <<y, m, doy - DaysBeforeMonth(y, m) + 1>>]

\* date.year
YearOf(d) == Calendar[d][1]

\* date.strftime("%Y-%m-%d")
strftime_ymd(d) == Calendar[d]

\* datetime.strptime(s, "%Y-%m-%d").date()
strptime_ymd(s) == YearStart(s[1]) + DaysBeforeMonth(s[1], s[2]) + s[3] - 1

\* date.weekday(): 0 = Monday .. 6 = Sunday; 2025-01-01 is a Wednesday.
weekday(d) == (d + 2) % 7

\* date.strftime("%A, %b %d, %Y")
strftime_full(d) ==
    LET s == strftime_ymd(d) IN <<weekday(d), s[2], s[3], s[1]>>

\* date.strftime("%b %d, %Y")
strftime_short(d) ==
    LET s == strftime_ymd(d) IN <<s[2], s[3], s[1]>>

\* datetime.datetime(2025, 1, 1).date() and datetime.datetime(2025, 2, 26).date()
start_date == strptime_ymd(<<2025, 1, 1>>)
fallback_today == strptime_ymd(<<2025, 2, 26>>)

\* a < b for two "%Y-%m-%d" strings
StrLess(a, b) ==
    \/ a[1] < b[1]
    \/ a[1] = b[1] /\ a[2] < b[2]
    \/ a[1] = b[1] /\ a[2] = b[2] /\ a[3] < b[3]

\* The keys of a dict, in some order.
RECURSIVE Keys(_)
Keys(S) ==
    IF S = {} THEN << >>
    ELSE LET k == CHOOSE k \in S : TRUE IN <<k>> \o Keys(S \ {k})

\* sorted(keys): the strings in ascending string order
sorted(S) == SortSeq(Keys(S), StrLess)

\* dict.get(key, 0)
Get(rc, key) == IF key \in DOMAIN rc THEN rc[key] ELSE 0

RECURSIVE SumOver(_, _)
SumOver(rc, S) ==
    IF S = {} THEN 0
    ELSE LET k == CHOOSE k \in S : TRUE IN rc[k] + SumOver(rc, S \ {k})

\* sum(self.review_counts.values())
sum_values(rc) == SumOver(rc, DOMAIN rc)

EmptyCounts == [k \in {} |-> 0]

(***************************************************************************)
(* "Today" as each method computes it from the clock.                      *)
(***************************************************************************)
\* calculate_current_streak: the clock's date, used as it is.
today_current_streak(clock) == clock

\* update_date_range_label
today_date_range_label(clock) ==
    IF YearOf(clock) # TargetYear THEN fallback_today ELSE clock

\* update_stats_label
today_stats_label(clock) ==
    IF YearOf(clock) # TargetYear THEN fallback_today ELSE clock

\* on_heatmap_motion
today_heatmap_motion(clock) ==
    IF YearOf(clock) # TargetYear THEN fallback_today ELSE clock

\* get_days_in_2025
today_days_in_2025(clock) ==
    IF YearOf(clock) # TargetYear THEN fallback_today ELSE clock

\* draw_heatmap
today_draw_heatmap(clock) ==
    IF YearOf(clock) # TargetYear THEN fallback_today ELSE clock

\* "Effective today" of the clock policy: the clock's date inside the target
\* year, the fallback date otherwise.
EffectiveToday(clock) ==
    IF YearOf(clock) = TargetYear THEN clock ELSE fallback_today

(***************************************************************************)
(* Streaks.                                                                *)
(***************************************************************************)
StreakLookback == 30

RECURSIVE CurrentStreakLoop(_, _, _, _)
CurrentStreakLoop(rc, today, i, streak) ==
    IF i >= StreakLookback THEN streak
    ELSE LET date_str == strftime_ymd(today - i)
         IN  IF date_str \in DOMAIN rc /\ rc[date_str] > 0
             THEN CurrentStreakLoop(rc, today, i + 1, streak + 1)
             ELSE streak

calculate_current_streak(rc, clock) ==
    IF DOMAIN rc = {} THEN 0
    ELSE CurrentStreakLoop(rc, today_current_streak(clock), 0, 0)

\* The scan of calculate_longest_streak; i is the 1-based index of dates[i]
\* of the source's 0-based loop variable, so dates[i] / dates[i+1] here are
\* the source's dates[i-1] / dates[i].
RECURSIVE LongestStreakLoop(_, _, _, _)
LongestStreakLoop(dates, i, max_streak, cur) ==
    IF i >= Len(dates) THEN <<max_streak, cur>>
    ELSE LET date1 == strptime_ymd(dates[i])
             date2 == strptime_ymd(dates[i + 1])
         IN  IF date2 - date1 = 1
             THEN LongestStreakLoop(dates, i + 1, max_streak, cur + 1)
             ELSE LongestStreakLoop(dates, i + 1, Max(max_streak, cur), 1)

LongestStreakNoFinalMax(rc) ==
    IF DOMAIN rc = {} THEN 0
    ELSE LongestStreakLoop(sorted(DOMAIN rc), 1, 0, 1)[1]

calculate_longest_streak(rc) ==
    IF DOMAIN rc = {} THEN 0
    ELSE LET r == LongestStreakLoop(sorted(DOMAIN rc), 1, 0, 1)
         IN  Max(r[1], r[2])

(***************************************************************************)
(* Labels.                                                                 *)
(***************************************************************************)
LabelLoading == [kind |-> "loading"]
LabelNotFound == [kind |-> "error", text |-> "Anki collection not found"]
LabelNoRevlog == [kind |-> "error", text |-> "Revlog table not found in Anki database"]
LabelException == [kind |-> "error", text |-> "Error: ..."]
LabelLaunchFailed == [kind |-> "error", text |-> "Failed to launch Anki: ..."]
LabelNoData == [kind |-> "warning", text |-> "No 2025 review data found"]

\* The markup update_stats_label sets.
update_stats_label(rc, clock, cs, ls, total) ==
    LET today == today_stats_label(clock)
        today_reviews == Get(rc, strftime_ymd(today))
    IN  IF total > 0
        THEN [kind |-> "stats", today_reviews |-> today_reviews,
              current_streak |-> cs, longest_streak |-> ls, total |-> total]
        ELSE LabelNoData

\* The markup update_date_range_label sets.
update_date_range_label(clock) ==
    [kind |-> "range", from |-> strftime_short(start_date),
     to |-> strftime_short(today_date_range_label(clock))]

(***************************************************************************)
(* load_anki_data.  What the database holds is an input: whether the       *)
(* collection file exists, whether opening or querying it raises, whether  *)
(* it has a revlog table, and the rows of the GROUP BY day ORDER BY day    *)
(* query.  A row's day is an integer day bucket ("int"), an integer whose  *)
(* timestamp datetime.fromtimestamp rejects with ValueError/OverflowError  *)
(* ("huge"), or, with the fallback schema's untyped day column, NULL       *)
(* ("null") or a TEXT value ("text"), on which day * 86400 is not a number *)
(* and fromtimestamp raises TypeError.  SQLite orders NULL before numbers  *)
(* and numbers before TEXT.                                                *)
(***************************************************************************)
\* Day bucket (days since 1970-01-01) of 2025-01-01.
EpochDay2025 == 20089

\* datetime.datetime.fromtimestamp(day * 86400).date(): the local date at
\* midnight UTC of the bucket's day, which is the day before in a time zone
\* west of Greenwich.
fromtimestamp_date(day, west) == day - EpochDay2025 - (IF west THEN 1 ELSE 0)

RECURSIVE ProcessRows(_, _, _, _)
ProcessRows(rows, i, rc, west) ==
    IF i > Len(rows) THEN [rc |-> rc, raised |-> FALSE]
    ELSE LET row == rows[i] IN
         IF row.kind \in {"null", "text"} THEN [rc |-> rc, raised |-> TRUE]
         ELSE IF row.kind = "huge" THEN ProcessRows(rows, i + 1, rc, west)
         ELSE LET date_str == strftime_ymd(fromtimestamp_date(row.day, west))
              IN  IF date_str[1] = TargetYear
                  THEN ProcessRows(rows, i + 1,
                           [k \in DOMAIN rc \cup {date_str} |->
                               IF k = date_str THEN row.count ELSE rc[k]], west)
                  ELSE ProcessRows(rows, i + 1, rc, west)

\* Bounds of the database contents tried.
MaxRowCount == 2
LoadDays == {55, 56}

RECURSIVE IntRows(_, _)
IntRows(S, cnt) ==
    IF S = {} THEN << >>
    ELSE LET least == CHOOSE a \in S : \A b \in S : a <= b
         IN  <<[kind |-> "int", day |-> EpochDay2025 + least, count |-> cnt[least]]>>
             \o IntRows(S \ {least}, cnt)

\* The count columns tried: any subset of the candidate days with any counts
\* (COUNT(*) of a group is at least 1).
CountColumns == UNION { [S -> 1..MaxRowCount] : S \in SUBSET LoadDays }

FullColumn == [d \in LoadDays |-> 1]

NullRow == [kind |-> "null", count |-> 1]
HugeRow == [kind |-> "huge", count |-> 1]
TextRow == [kind |-> "text", count |-> 1]

Database(found, opens, revlog, result, west) ==
    [found |-> found, opens |-> opens, revlog |-> revlog, rows |-> result, west |-> west]

\* The databases tried: no collection file; one that cannot be opened or
\* queried; one without a revlog table; one per count column, its rows in
\* day order, alone and followed by a TEXT-day row; one with a NULL-day row
\* first; one with an out-of-range row; one read west of Greenwich.
Databases ==
    { Database(FALSE, FALSE, FALSE, << >>, FALSE),
      Database(TRUE, FALSE, FALSE, << >>, FALSE),
      Database(TRUE, TRUE, FALSE, << >>, FALSE),
      Database(TRUE, TRUE, TRUE, <<NullRow>> \o IntRows(LoadDays, FullColumn), FALSE),
      Database(TRUE, TRUE, TRUE, IntRows(LoadDays, FullColumn) \o <<HugeRow>>, FALSE),
      Database(TRUE, TRUE, TRUE, IntRows(LoadDays, FullColumn), TRUE) }
    \cup { Database(TRUE, TRUE, TRUE, IntRows(DOMAIN cnt, cnt), FALSE) :
             cnt \in CountColumns }
    \cup { Database(TRUE, TRUE, TRUE, IntRows(DOMAIN cnt, cnt) \o <<TextRow>>, FALSE) :
             cnt \in CountColumns }

\* The return paths that are failures.
FailurePaths == {"not_found", "no_revlog", "exception"}

load_anki_data(db) ==
    IF ~db.found THEN
        /\ review_counts' = EmptyCounts
        /\ stats_label' = LabelNotFound
        /\ load_result' = "not_found"
        /\ UNCHANGED <<current_streak, longest_streak, total_reviews, date_range_label>>
    ELSE IF ~db.opens THEN
        /\ review_counts' = EmptyCounts
        /\ stats_label' = LabelException
        /\ load_result' = "exception"
        /\ UNCHANGED <<current_streak, longest_streak, total_reviews, date_range_label>>
    ELSE IF ~db.revlog THEN
        /\ review_counts' = EmptyCounts
        /\ stats_label' = LabelNoRevlog
        /\ load_result' = "no_revlog"
        /\ UNCHANGED <<current_streak, longest_streak, total_reviews, date_range_label>>
    ELSE LET r == ProcessRows(db.rows, 1, EmptyCounts, db.west) IN
        IF r.raised THEN
            /\ review_counts' = r.rc
            /\ stats_label' = LabelException
            /\ load_result' = "exception"
            /\ UNCHANGED <<current_streak, longest_streak, total_reviews, date_range_label>>
        ELSE
            LET cs == calculate_current_streak(r.rc, now)
                ls == calculate_longest_streak(r.rc)
                total == sum_values(r.rc)
            IN  /\ review_counts' = r.rc
                /\ current_streak' = Some(cs)
                /\ longest_streak' = Some(ls)
                /\ total_reviews' = Some(total)
                /\ stats_label' = update_stats_label(r.rc, now, cs, ls, total)
                /\ date_range_label' = update_date_range_label(now)
                /\ load_result' = "ok"

pointer_vars == <<dragging, tooltip_window, hover_date, hover_count, popups>>
load_vars == <<review_counts, current_streak, longest_streak, total_reviews,
               stats_label, date_range_label, load_result>>
size_vars == <<width, height>>

\* __init__, from the initial load_anki_data on.
Construct ==
    /\ ~running
    /\ running' = TRUE
    /\ \E db \in Databases : load_anki_data(db)
    /\ UNCHANGED <<now, pointer_vars, size_vars, drawn>>

\* refresh_data: load_anki_data, then queue_draw.
refresh_data ==
    /\ running
    /\ \E db \in Databases : load_anki_data(db)
    /\ UNCHANGED <<now, running, pointer_vars, size_vars, drawn>>

on_refresh_clicked == refresh_data

\* The GLib.timeout_add_seconds(3600, ...) callback.
HourlyTimer == refresh_data

\* on_launch_clicked: subprocess.Popen(["anki"]) succeeds or raises.
on_launch_clicked ==
    /\ running
    /\ \E launched \in BOOLEAN :
          stats_label' = IF launched THEN stats_label ELSE LabelLaunchFailed
    /\ UNCHANGED <<now, running, review_counts, current_streak, longest_streak,
                   total_reviews, date_range_label, load_result, pointer_vars,
                   size_vars, drawn>>

(***************************************************************************)
(* The grid layout shared by on_heatmap_motion and draw_heatmap.  Lengths  *)
(* are exact rationals: cell_width = CellWidthN(cols) / cols and           *)
(* cell_height = CellHeightN / rows, h_padding = (width - CellWidthN) / 2  *)
(* and v_padding = (height - CellHeightN) / 2.                             *)
(***************************************************************************)
MaxDays == 105
MinCellPx == 20
MaxCellPx == 18
rows == 7

get_days_in_2025(clock) == (today_days_in_2025(clock) - start_date) + 1

days_to_show(clock) == Min(get_days_in_2025(clock), MaxDays)

\* cols of on_heatmap_motion
motion_cols(clock, w) == Min(days_to_show(clock) \div 7, w \div MinCellPx)

\* cols of draw_heatmap
draw_cols(clock, w) == Min(days_to_show(clock) \div 7 + 1, w \div MinCellPx)

\* cell_width * cols = min(18, width / cols) * cols
CellWidthN(w, cols) == Min(MaxCellPx * cols, w)

\* cell_height * rows = min(18, height / rows) * rows
CellHeightN(h) == Min(MaxCellPx * rows, h)

(***************************************************************************)
(* The tooltip overlay.                                                    *)
(***************************************************************************)
\* hide_tooltip, as the new values of the four attributes it may change.
hide_tooltip(tw, hd, hc, pp) ==
    IF tw # None
    THEN [tooltip_window |-> None, hover_date |-> None, hover_count |-> None,
          popups |-> pp - 1]
    ELSE [tooltip_window |-> tw, hover_date |-> hd, hover_count |-> hc,
          popups |-> pp]

\* show_tooltip: hide_tooltip, then a new popup window holding the date and
\* the count.
show_tooltip(tw, hd, hc, pp, date_str, count) ==
    LET h == hide_tooltip(tw, hd, hc, pp)
    IN  [tooltip_window |-> Some([date |-> date_str, count |-> count]),
         hover_date |-> h.hover_date, hover_count |-> h.hover_count,
         popups |-> h.popups + 1]

SetTooltip(r) ==
    /\ tooltip_window' = r.tooltip_window
    /\ hover_date' = r.hover_date
    /\ hover_count' = r.hover_count
    /\ popups' = r.popups

\* The date on_heatmap_motion computes for the cell (row, col).
motion_cell_date(cols, row, col) ==
    LET week_number == cols - 1 - col
        day_of_week == row
        days_from_start == week_number * 7 + day_of_week
    IN  start_date + days_from_start

\* int(n / d) for d > 0: Python's int() truncates toward zero.
int_div(n, d) == IF n >= 0 THEN n \div d ELSE -((-n) \div d)

\* event.x < h_padding or event.x > width - h_padding
outside_columns(x, cols) ==
    \/ 2 * x < width - CellWidthN(width, cols)
    \/ 2 * x > width + CellWidthN(width, cols)

\* event.y < v_padding or event.y > height - v_padding
outside_rows(y) ==
    \/ 2 * y < height - CellHeightN(height)
    \/ 2 * y > height + CellHeightN(height)

\* on_heatmap_motion for a pointer at pixel (x, y).  With cols = 0 the
\* division width / cols raises ZeroDivisionError and the handler ends
\* there, having changed nothing.
on_heatmap_motion(x, y) ==
    LET cols == motion_cols(now, width)
        cwN == CellWidthN(width, cols)
        chN == CellHeightN(height)
        hidden == hide_tooltip(tooltip_window, hover_date, hover_count, popups)
    IN
    IF cols = 0 THEN UNCHANGED <<tooltip_window, hover_date, hover_count, popups>>
    ELSE IF outside_columns(x, cols) THEN SetTooltip(hidden)
    ELSE IF outside_rows(y) THEN SetTooltip(hidden)
    ELSE
        LET col == int_div((2 * x - (width - cwN)) * cols, 2 * cwN)
            row == int_div((2 * y - (height - chN)) * rows, 2 * chN)
        IN
        IF col >= cols \/ row >= rows THEN SetTooltip(hidden)
        ELSE
            LET cell_date == motion_cell_date(cols, row, col)
                today == today_heatmap_motion(now)
            IN
            IF cell_date > today THEN SetTooltip(hidden)
            ELSE
                LET count == Get(review_counts, strftime_ymd(cell_date))
                    formatted_date == strftime_full(cell_date)
                IN
                IF hover_date # Some(formatted_date) \/ hover_count # Some(count)
                THEN SetTooltip(show_tooltip(tooltip_window, Some(formatted_date),
                                             Some(count), popups,
                                             formatted_date, count))
                ELSE UNCHANGED <<tooltip_window, hover_date, hover_count, popups>>

\* Pointer positions tried over the heatmap area.
PointerXs == {5, 130, 250}
PointerYs == {3, 120}

\* The motion-notify-event of the heatmap area with the pointer at (x, y).
MotionAt(x, y) ==
    /\ running
    /\ on_heatmap_motion(x, y)
    /\ UNCHANGED <<now, running, load_vars, dragging, size_vars, drawn>>

HeatmapMotion == \E x \in PointerXs, y \in PointerYs : MotionAt(x, y)

on_heatmap_leave ==
    /\ running
    /\ SetTooltip(hide_tooltip(tooltip_window, hover_date, hover_count, popups))
    /\ UNCHANGED <<now, running, load_vars, dragging, size_vars, drawn>>

Buttons == {1, 3}

\* on_press for an event of the given button.
OnPressButton(button) ==
    /\ running
    /\ IF button = 1
       THEN /\ dragging' = TRUE
            /\ SetTooltip(hide_tooltip(tooltip_window, hover_date, hover_count, popups))
       ELSE UNCHANGED pointer_vars
    /\ UNCHANGED <<now, running, load_vars, size_vars, drawn>>

on_press == \E button \in Buttons : OnPressButton(button)

on_release ==
    /\ running
    /\ dragging' = FALSE
    /\ UNCHANGED <<now, running, load_vars, tooltip_window, hover_date, hover_count,
                   popups, size_vars, drawn>>

\* on_motion moves the window while dragging; the window's position is not
\* part of the state modelled.
on_motion ==
    /\ running
    /\ UNCHANGED vars

(***************************************************************************)
(* draw_heatmap.                                                           *)
(***************************************************************************)
RECURSIVE MaxOver(_, _)
MaxOver(rc, S) ==
    IF S = {} THEN 0
    ELSE LET k == CHOOSE k \in S : TRUE
             m == MaxOver(rc, S \ {k})
         IN  IF S = {k} THEN rc[k] ELSE Max(rc[k], m)

MaxCountNoFloor(rc) == IF DOMAIN rc # {} THEN MaxOver(rc, DOMAIN rc) ELSE 0

\* max_count of draw_heatmap
max_count(rc) == IF DOMAIN rc # {} THEN MaxOver(rc, DOMAIN rc) ELSE 1

\* intensity, the rational <<numerator, denominator>> of
\* min(1.0, count / max_count) if count > 0 else 0
intensity(count, maxc) ==
    IF count > 0
    THEN (IF count >= maxc THEN <<1, 1>> ELSE <<count, maxc>>)
    ELSE <<0, 1>>

\* r, g, b as numerators over a common denominator:
\* (0.15, 0.4 + intensity * 0.5, 0.15) or the light gray (0.9, 0.9, 0.9)
NeutralColour == [num |-> <<18, 18, 18>>, den |-> 20]
cell_colour(count, inten) ==
    IF count > 0
    THEN [num |-> <<3 * inten[2], 8 * inten[2] + 10 * inten[1], 3 * inten[2]>>,
          den |-> 20 * inten[2]]
    ELSE NeutralColour

\* The cell draw_heatmap paints for day i of its loop.
draw_cell(rc, clock, i) ==
    LET current_date == start_date + i
        days_since_start == current_date - start_date
        count == Get(rc, strftime_ymd(current_date))
        inten == intensity(count, max_count(rc))
    IN  [date |-> current_date,
         col |-> days_since_start \div 7,
         row |-> weekday(current_date),
         count |-> count,
         intensity |-> inten,
         colour |-> cell_colour(count, inten),
         outlined |-> (current_date = today_draw_heatmap(clock))]

\* All the cells draw_heatmap paints.
draw_heatmap(rc, clock) ==
    { draw_cell(rc, clock, i) :
        i \in { j \in 0..(days_to_show(clock) - 1) :
                  start_date + j <= today_draw_heatmap(clock) } }

(***************************************************************************)
(* The widget: clock, loads and refreshes, pointer events.                 *)
(***************************************************************************)
\* The drawing area's size request (380 x 140), the allocation it normally gets.
RequestWidth == 380
RequestHeight == 140

\* Clock dates tried: 2024-12-31, 2025-01-03, 2025-02-26, 2026-01-01.
Clocks == {-1, 2, 56, 365}

InitAttributes ==
    /\ review_counts = EmptyCounts
    /\ current_streak = None
    /\ longest_streak = None
    /\ total_reviews = None
    /\ stats_label = LabelLoading
    /\ date_range_label = LabelLoading
    /\ load_result = "none"
    /\ dragging = FALSE
    /\ tooltip_window = None
    /\ hover_date = None
    /\ hover_count = None
    /\ popups = 0
    /\ drawn = {}

Init ==
    /\ now \in Clocks
    /\ running = FALSE
    /\ width = RequestWidth
    /\ height = RequestHeight
    /\ InitAttributes

\* The clock moves on to a later date.
Tick ==
    /\ \E d \in Clocks : d > now /\ now' = d
    /\ UNCHANGED <<running, load_vars, pointer_vars, size_vars, drawn>>

Next ==
    \/ Construct
    \/ on_refresh_clicked
    \/ HourlyTimer
    \/ on_launch_clicked
    \/ HeatmapMotion
    \/ on_heatmap_leave
    \/ on_press
    \/ on_release
    \/ on_motion
    \/ Tick

Spec == Init /\ [][Next]_vars

(***************************************************************************)
(* The streak functions on their own: any DailyCount mapping over the      *)
(* first days of January (absent, zero or positive counts), optionally     *)
(* with a run of reviewed days that ends on 26 February, and any clock.    *)
(***************************************************************************)
WindowLen == 4
MaxCount == 2
RunEnd == fallback_today
RunStarts == {26, 27, 55}

\* The mapping with count 1 on every day from..to.
RunCounts(from, to) == [k \in { strftime_ymd(d) : d \in from..to } |-> 1]

\* f @@ g for two mappings on disjoint days.
Merge(f, g) == [k \in DOMAIN f \cup DOMAIN g |-> IF k \in DOMAIN f THEN f[k] ELSE g[k]]

WindowCounts ==
    UNION { [{ strftime_ymd(d) : d \in S } -> 0..MaxCount] : S \in SUBSET (0..(WindowLen - 1)) }

\* The mapping of the scenario: 1, 2, 3 and 5 January with 3, 5, 0 and 2 reviews.
ScenarioCounts ==
    [k \in {<<2025, 1, 1>>, <<2025, 1, 2>>, <<2025, 1, 3>>, <<2025, 1, 5>>} |->
        IF k = <<2025, 1, 1>> THEN 3
        ELSE IF k = <<2025, 1, 2>> THEN 5
        ELSE IF k = <<2025, 1, 3>> THEN 0
        ELSE 2]

StreakCounts ==
    WindowCounts
    \cup { Merge(w, RunCounts(s, RunEnd)) : w \in WindowCounts, s \in RunStarts }
    \cup {ScenarioCounts}

\* 2024-12-31, the days of the window and the day after it, 25 to 27
\* February, 2026-01-01 and 2026-11-02.
StreakClocks == {-1} \cup (0..WindowLen) \cup {55, 56, 57, 365, 670}

InitStreak ==
    /\ now \in StreakClocks
    /\ running = TRUE
    /\ width = RequestWidth
    /\ height = RequestHeight
    /\ review_counts \in StreakCounts
    /\ current_streak = None
    /\ longest_streak = None
    /\ total_reviews = None
    /\ stats_label = LabelLoading
    /\ date_range_label = LabelLoading
    /\ load_result = "none"
    /\ dragging = FALSE
    /\ tooltip_window = None
    /\ hover_date = None
    /\ hover_count = None
    /\ popups = 0
    /\ drawn = {}

CalcCurrentStreak ==
    /\ current_streak = None
    /\ current_streak' = Some(calculate_current_streak(review_counts, now))
    /\ UNCHANGED <<now, running, review_counts, longest_streak, total_reviews,
                   stats_label, date_range_label, load_result, pointer_vars,
                   size_vars, drawn>>

CalcLongestStreak ==
    /\ longest_streak = None
    /\ longest_streak' = Some(calculate_longest_streak(review_counts))
    /\ UNCHANGED <<now, running, review_counts, current_streak, total_reviews,
                   stats_label, date_range_label, load_result, pointer_vars,
                   size_vars, drawn>>

NextStreak == CalcCurrentStreak \/ CalcLongestStreak

SpecStreak == InitStreak /\ [][NextStreak]_vars

(***************************************************************************)
(* draw_heatmap on its own: any clock, any allocation, any mapping a load  *)
(* can leave in review_counts.  The allocations tried are the size request *)
(* and larger ones, and smaller ones too: GTK may allocate a widget less   *)
(* than it requested, and width // 20 caps the columns for that case.      *)
(***************************************************************************)
GridWidths == {20, 280, 380, 400, 640}
GridHeights == {100, 140, 200}

\* 2024-12-31, 3 and 7 January, 26 February, 15 and 16 April (105 and 106
\* days into the year), 20 July, 31 December, 2026-01-01.
GridClocks == {-1, 2, 6, 56, 104, 105, 200, 364, 365}

\* Every mapping load_anki_data leaves behind for the databases tried.
LoadableCounts ==
    { ProcessRows(db.rows, 1, EmptyCounts, db.west).rc :
        db \in { d \in Databases : d.found /\ d.opens /\ d.revlog } }

InitGrid ==
    /\ now \in GridClocks
    /\ running = TRUE
    /\ width \in GridWidths
    /\ height \in GridHeights
    /\ review_counts \in LoadableCounts
    /\ current_streak = None
    /\ longest_streak = None
    /\ total_reviews = None
    /\ stats_label = LabelLoading
    /\ date_range_label = LabelLoading
    /\ load_result = "ok"
    /\ dragging = FALSE
    /\ tooltip_window = None
    /\ hover_date = None
    /\ hover_count = None
    /\ popups = 0
    /\ drawn = {}

\* The "draw" signal handler.  With cols = 0 the division width / cols raises
\* ZeroDivisionError before any cell is painted.
DrawHeatmap ==
    /\ running
    /\ drawn' = IF draw_cols(now, width) = 0 THEN drawn
                ELSE draw_heatmap(review_counts, now)
    /\ UNCHANGED <<now, running, load_vars, pointer_vars, size_vars>>

NextGrid == DrawHeatmap

SpecGrid == InitGrid /\ [][NextGrid]_vars

(***************************************************************************)
(* Properties.                                                             *)
(***************************************************************************)

\* C1: every method that needs "today" starts from the same date, the
\* effective today of the clock, whatever the clock shows: the current
\* streak, the two labels, the grid window and the tooltip bound agree.
C1_SameTodayEverywhere ==
    running =>
        LET t == EffectiveToday(now) IN
        /\ today_current_streak(now) = t
        /\ today_stats_label(now) = t
        /\ today_date_range_label(now) = t
        /\ today_days_in_2025(now) = t
        /\ today_draw_heatmap(now) = t
        /\ today_heatmap_motion(now) = t

\* A statistic that is zero, or that has never been assigned.
ZeroOrUnset(v) == v = None \/ v = Some(0)

\* C2: whenever the latest load_anki_data returned on a failure path, the
\* statistics are zero (current streak, longest streak, total reviews; an
\* attribute never assigned counts as zero here) and the stats label shows an
\* error message: nothing of an earlier successful load remains.
C2_FailedLoadZeroStats ==
    load_result \in FailurePaths =>
        /\ ZeroOrUnset(current_streak)
        /\ ZeroOrUnset(longest_streak)
        /\ ZeroOrUnset(total_reviews)
        /\ stats_label.kind = "error"

\* C3: on every failure path of load_anki_data review_counts is empty when
\* it returns.
C3_FailedLoadEmptyCounts ==
    load_result \in FailurePaths => review_counts = EmptyCounts

\* C4: for every nonempty mapping and every clock date the longest streak
\* is at least the current streak.
C4_LongestAtLeastCurrent ==
    (current_streak # None /\ longest_streak # None /\ DOMAIN review_counts # {})
        => longest_streak[1] >= current_streak[1]

\* C4 witness: a run of 31 reviewed days ending on the clock's date, with
\* the current streak capped at 30 and the longest streak 31.
C4_Witness ==
    /\ DOMAIN review_counts # {}
    /\ current_streak = Some(StreakLookback)
    /\ longest_streak = Some(StreakLookback + 1)

\* The days of the target year that have at least one recorded review.
ReviewedDays(rc) ==
    { d \in YearStart(TargetYear)..(YearStart(TargetYear + 1) - 1) :
        Get(rc, strftime_ymd(d)) > 0 }

\* The length of the longest run of consecutive reviewed days.
LongestReviewedRun(rc) ==
    LET R == ReviewedDays(rc)
        RunFrom(d) == CHOOSE n \in 1..(Cardinality(R) + 1) :
                          /\ \A j \in 0..(n - 1) : d + j \in R
                          /\ d + n \notin R
        Lengths == { RunFrom(d) : d \in { e \in R : e - 1 \notin R } }
    IN  IF R = {} THEN 0 ELSE CHOOSE n \in Lengths : \A m \in Lengths : m <= n

\* C5: the longest streak is the length of the longest run of consecutive
\* days each having at least one review, so a date present with count 0
\* breaks a run; in the scenario (1, 2, 3, 5 January with 3, 5, 0, 2 reviews,
\* today 5 January) the longest streak is 2 and the current streak is 1.
C5_LongestStreakIsReviewedRun ==
    /\ longest_streak # None => longest_streak[1] = LongestReviewedRun(review_counts)
    /\ (review_counts = ScenarioCounts /\ now = strptime_ymd(<<2025, 1, 5>>)
        /\ longest_streak # None /\ current_streak # None)
          => (longest_streak = Some(2) /\ current_streak = Some(1))

\* The number of consecutive reviewed days walking backward from day t,
\* stopping at the first gap and at the 30-day cap.
RunBackFrom(rc, t) ==
    LET R == ReviewedDays(rc)
    IN  IF t \notin R THEN 0
        ELSE CHOOSE n \in 1..StreakLookback :
                /\ \A j \in 0..(n - 1) : t - j \in R
                /\ (n = StreakLookback \/ t - n \notin R)

\* C6: the current streak is 0 if effective today has no entry or a zero
\* count, and otherwise the number of consecutive reviewed days walking
\* backward from effective today, at most 30.
C6_CurrentStreakFromEffectiveToday ==
    current_streak # None =>
        current_streak[1] = RunBackFrom(review_counts, EffectiveToday(now))

\* C7: every date draw_heatmap draws at (row, col) is mapped back to itself
\* by the hit-test of on_heatmap_motion, both use the same column count, and
\* no two drawn dates share a cell.
C7_CellRoundTrip ==
    drawn # {} =>
        /\ draw_cols(now, width) = motion_cols(now, width)
        /\ \A c \in drawn :
              motion_cell_date(motion_cols(now, width), c.row, c.col) = c.date
        /\ \A c1, c2 \in drawn :
              (c1.row = c2.row /\ c1.col = c2.col) => c1.date = c2.date

\* C8: the dates drawn are at most 105 consecutive days, the last of them
\* effective today, whose cell is drawn with the outline.
C8_WindowEndsToday ==
    drawn # {} =>
        LET dates == { c.date : c \in drawn }
            t == EffectiveToday(now)
        IN  /\ Cardinality(dates) <= MaxDays
            /\ \A d \in dates : d <= t
            /\ \A d \in dates : \A e \in d..t : e \in dates
            /\ \E c \in drawn : c.date = t /\ c.outlined

\* a <= b for two rationals <<numerator, denominator>> with positive
\* denominators
RatLeq(a, b) == a[1] * b[2] <= b[1] * a[2]

\* C9: among the cells drawn the intensity is non-decreasing in the count,
\* a cell with count 0 has intensity 0 and exactly the neutral colour, a cell
\* whose count equals max_count has intensity 1, and max_count is at least 1.
C9_IntensityMonotone ==
    drawn # {} =>
        LET shades == { <<c.count, c.intensity>> : c \in drawn } IN
        /\ max_count(review_counts) >= 1
        /\ \A p \in shades, q \in shades : p[1] <= q[1] => RatLeq(p[2], q[2])
        /\ \A c \in drawn :
              /\ c.intensity[2] > 0
              /\ c.count = 0 =>
                    (c.intensity[1] = 0 /\ c.colour = NeutralColour)
              /\ c.count > 0 => c.colour # NeutralColour
              /\ c.count = max_count(review_counts) =>
                    c.intensity[1] = c.intensity[2]

\* C9 witness: a drawing with a cell of count 0, a cell of a count strictly
\* between 0 and max_count, and a cell of count max_count.
C9_Witness ==
    /\ \E c \in drawn : c.count = 0
    /\ \E c \in drawn : 0 < c.count /\ c.count < max_count(review_counts)
    /\ \E c \in drawn : c.count = max_count(review_counts)

\* C10: at most one tooltip overlay exists at any time, tooltip_window is
\* None exactly when hover_date and hover_count are None, and right after a
\* heatmap leave event or a left-button press no overlay exists.
C10_OneTooltip ==
    [][ /\ popups' <= 1
        /\ (tooltip_window' = None) <=> (hover_date' = None /\ hover_count' = None)
        /\ (on_heatmap_leave \/ OnPressButton(1))
              => (tooltip_window' = None /\ popups' = 0) ]_vars

\* C11: while the window is being dragged (dragging is True) no tooltip
\* overlay exists, however heatmap-motion events interleave with the drag.
C11_NoTooltipWhileDragging ==
    dragging => (tooltip_window = None /\ popups = 0)

\* C12: the grid draw_heatmap draws fits the drawing area: cols * cell_width
\* is at most the width, 7 * cell_height at most the height, and every drawn
\* date has a column index below cols and a row index below 7.
C12_GridFits ==
    drawn # {} =>
        LET cols == draw_cols(now, width) IN
        /\ CellWidthN(width, cols) <= width
        /\ CellHeightN(height) <= height
        /\ \A c \in drawn : c.col < cols /\ c.row < rows

\* The pointer (x, y) is in the padding around the centred cols x 7 grid of
\* on_heatmap_motion.
InPadding(x, y) ==
    LET cwN == CellWidthN(width, motion_cols(now, width))
        chN == CellHeightN(height)
    IN  \/ 2 * x < width - cwN
        \/ 2 * x > width + cwN
        \/ 2 * y < height - chN
        \/ 2 * y > height + chN

\* The dates of the active day-window that are not after effective today.
ActiveWindow ==
    { d \in start_date..(start_date + Min(EffectiveToday(now) - start_date + 1,
                                          MaxDays) - 1) :
        d <= EffectiveToday(now) }

\* What on_heatmap_motion at (x, y) is to leave behind: no tooltip for a
\* pointer in the padding, and otherwise at most a tooltip whose date is in the
\* active day-window.
MotionOutcome(x, y) ==
    /\ InPadding(x, y) => tooltip_window' = None
    /\ tooltip_window' # None =>
          /\ ~InPadding(x, y)
          /\ \E d \in ActiveWindow : tooltip_window'[1].date = strftime_full(d)

\* A heatmap motion event at (x, y) that ends otherwise.
MotionMisses(x, y) == MotionAt(x, y) /\ ~MotionOutcome(x, y)

\* C13: after on_heatmap_motion a tooltip is shown only if the pointer is
\* inside the grid and the tooltip's date is in the active day-window and not
\* after effective today; for a pointer in the padding, a date beyond today or
\* a date outside the window the tooltip is hidden and none is shown.  Stated
\* of every state the widget is in and every pointer position: no motion event
\* possible there ends otherwise.
C13_TooltipOnlyInsideWindow ==
    \A x \in PointerXs, y \in PointerYs : ~ENABLED MotionMisses(x, y)

\* C14: for every effective today in the target year and every drawing-area
\* width of at least 20 pixels, the column count of draw_heatmap and the
\* column count of on_heatmap_motion are both at least 1, so that width / cols
\* never divides by zero.
C14_ColsAtLeastOne ==
    (drawn # {} /\ width >= MinCellPx) =>
        /\ draw_cols(now, width) >= 1
        /\ motion_cols(now, width) >= 1

====
